---- MODULE Spec2Model ----
(***************************************************************************)
(* Model of src/utils/tty.rs: the memoized queries stdout_isatty and       *)
(* stderr_isatty, the unix probe (libc::isatty) and the windows probe      *)
(* win::isatty with is_win_console_emulators and get_file_name_by_handle.  *)
(*                                                                         *)
(* Each thread runs calls of the two queries.  A call goes through         *)
(* Lazy::get, which is Once::call_once around the closure                  *)
(* `|| isatty(FD)` followed by a read of the stored value.  The probe is   *)
(* cut at its OS calls: every action is one OS call together with the      *)
(* local code up to the next OS call.  The OS answers are inputs, drawn    *)
(* afresh at every call, so the OS state of a stream may differ from one   *)
(* OS call to the next; the only OS state the model keeps is the console   *)
(* mode of each stream, which the probe itself writes.                     *)
(***************************************************************************)
EXTENDS Integers, Sequences, FiniteSets, TLC

\* ---------------------------------------------------------------- bounds
\* the number of threads, and the number of calls they make between them
NThreads == 2
MaxCalls == 2

\* ------------------------------------------------------ program constants
\* FileName: [WCHAR; 2040]
FileNameCapacity == 2040
\* size of a WCHAR in bytes: the divisor of FileNameLength
WcharBytes == 2
\* size of the DWORD FileNameLength that precedes FileName in the struct
DwordBytes == 4
\* winapi::um::wincon::ENABLE_VIRTUAL_TERMINAL_PROCESSING
ENABLE_VIRTUAL_TERMINAL_PROCESSING == 4
\* winapi::um::winbase::FILE_TYPE_PIPE
FILE_TYPE_PIPE == 3

Threads == 1..NThreads
Streams == {"stdout", "stderr"}
Platforms == {"unix", "windows"}

\* Option<T>: None is the empty sequence, Some(x) the one-element sequence
None == <<>>
Some(x) == <<x>>
IsSome(o) == Len(o) = 1
Unwrap(o) == o[1]

\* ------------------------------------------------------------ OS domains
\* what GetStdHandle can return: NULL (no handle attached),
\* INVALID_HANDLE_VALUE (the call failed) or a handle
Handles == {"NULL", "INVALID", "VALID"}
\* GetFileType: FILE_TYPE_UNKNOWN (also its failure value), DISK, CHAR, PIPE
FileTypes == {0, 1, 2, 3}
\* console modes a stream's console can start in (bit 4 is the VT flag)
InitModes == {3, 7}

\* the three emulator prefixes of is_win_console_emulators
PrefixConEmuHk == <<"\\", "C", "o", "n", "E", "m", "u", "H", "k">>
PrefixCygwin == <<"\\", "c", "y", "g", "w", "i", "n", "-">>
PrefixMsys == <<"\\", "m", "s", "y", "s", "-">>

\* A sequence of UTF-16 code units (or of characters) is kept as `head`
\* followed by `fill` copies of "x" followed by `pad` copies of the zero
\* unit "0", so that names of the buffer's capacity can be stated.  In
\* head, "D800" is an unpaired surrogate and "FFFD" the replacement
\* character.
Text(h, f, z) == [head |-> h, fill |-> f, pad |-> z]
Name(h, f) == Text(h, f, 0)
NameLen(n) == Len(n.head) + n.fill + n.pad
EmptyName == Name(<<>>, 0)

ShortHeads ==
    { PrefixConEmuHk \o <<"1">>,
      PrefixCygwin \o <<"a">>,
      PrefixMsys,
      PrefixMsys \o <<"D800">>,
      <<"\\", "c", "o", "n", "e", "m", "u", "h", "k", "1">>,
      <<"\\", "C", "Y", "G", "W", "I", "N", "-", "a">>,
      <<"\\", "M", "s", "y", "s", "-", "a">>,
      <<"x">> \o PrefixMsys,
      <<"\\", "m", "s", "y", "s">>,
      <<>> }

\* the names the OS can hold for a pipe: short ones, and names at and one
\* above the capacity of FileName
OsNames ==
    { Name(h, 0) : h \in ShortHeads }
    \cup { Name(PrefixMsys, FileNameCapacity - Len(PrefixMsys) + d) : d \in {0, 1} }
    \cup { Name(<<"p">>, FileNameCapacity - 1) }

\* ------------------------------------------------- pure parts of the probe
\* console_mode | ENABLE_VIRTUAL_TERMINAL_PROCESSING: bitwise or of two DWORDs
RECURSIVE BitOr(_, _)
BitOr(a, b) ==
    IF a = 0 THEN b
    ELSE IF b = 0 THEN a
    ELSE (IF a % 2 = 1 \/ b % 2 = 1 THEN 1 ELSE 0) + 2 * BitOr(a \div 2, b \div 2)

\* whether bit `flag` (a power of two) is set in mode m
HasFlag(m, flag) == (m \div flag) % 2 = 1

\* ::std::mem::size_of::<FileNameInfo>() of the #[repr(C)] struct:
\* a DWORD followed by 2040 WCHARs
SizeOfFileNameInfo == DwordBytes + FileNameCapacity * WcharBytes

\* GetFileInformationByHandleEx(handle, FileNameInfo, &mut name_buf, size):
\* what the OS leaves in name_buf and returns.  `avail` is whether the OS
\* has a name for the handle at all, `nm` the name it has.  The call
\* succeeds only when the whole FILE_NAME_INFO fits in `size` bytes;
\* otherwise it fails (ERROR_MORE_DATA) and the buffer is not to be used.
OsGetFileInformationByHandleEx(avail, nm, size) ==
    LET bytes == NameLen(nm) * WcharBytes
    IN  IF avail /\ DwordBytes + bytes <= size
        THEN [res |-> 1, FileNameLength |-> bytes, FileName |-> nm]
        ELSE [res |-> 0, FileNameLength |-> 0, FileName |-> EmptyName]

\* CharCount without the division: the byte length is used as the count
CharCountBytes(FileNameLength) == FileNameLength

\* (name_buf.FileNameLength / 2) as usize
CharCount(FileNameLength) == FileNameLength \div WcharBytes

\* &name_buf.FileName[0..n]: the first n code units of the buffer, which
\* holds the name followed by the zeroes it was initialised with; n is
\* within the capacity (get_file_name_by_handle panics otherwise)
SliceFileName(nm, n) ==
    LET k == Len(nm.head)
    IN  IF n <= k THEN Text(SubSeq(nm.head, 1, n), 0, 0)
        ELSE IF n <= k + nm.fill THEN Text(nm.head, n - k, 0)
        ELSE Text(nm.head, nm.fill, n - k - nm.fill)

\* OsString::from_wide(wide).to_string_lossy(): every code unit becomes its
\* character, an unpaired surrogate becomes U+FFFD
LossyChar(u) == IF u = "D800" THEN "FFFD" ELSE u
to_string_lossy(wide) ==
    Text([i \in 1..Len(wide.head) |-> LossyChar(wide.head[i])], wide.fill, wide.pad)

\* the i-th character of a string kept as head + fill
CharAt(str, i) ==
    IF i <= Len(str.head) THEN str.head[i]
    ELSE IF i <= Len(str.head) + str.fill THEN "x"
    ELSE "0"

\* str::starts_with(prefix), character by character
RECURSIVE PrefixFrom(_, _, _)
PrefixFrom(str, prefix, i) ==
    IF i > Len(prefix) THEN TRUE
    ELSE IF i > NameLen(str) THEN FALSE
    ELSE IF CharAt(str, i) # prefix[i] THEN FALSE
    ELSE PrefixFrom(str, prefix, i + 1)

\* starts_with replaced by contains: the prefix may begin anywhere
contains(str, prefix) ==
    \E k \in 0..Len(str.head) :
        /\ k + Len(prefix) <= NameLen(str)
        /\ \A i \in 1..Len(prefix) : CharAt(str, k + i) = prefix[i]

starts_with(str, prefix) == PrefixFrom(str, prefix, 1)

\* get_file_name_by_handle after the OS call: None when the call failed,
\* else the sliced and converted name.  The slice panics when the count
\* is past the end of FileName.
get_file_name_by_handle(buf) ==
    IF buf.res = 0 THEN [panic |-> FALSE, name |-> None]
    ELSE LET n == CharCount(buf.FileNameLength)
         IN  IF n > FileNameCapacity THEN [panic |-> TRUE, name |-> None]
             ELSE [panic |-> FALSE,
                   name |-> Some(to_string_lossy(SliceFileName(buf.FileName, n)))]

\* is_win_console_emulators with `None => true`
is_win_console_emulatorsNoneTrue(name) ==
    IF IsSome(name)
    THEN \/ starts_with(Unwrap(name), PrefixConEmuHk)
         \/ starts_with(Unwrap(name), PrefixCygwin)
         \/ starts_with(Unwrap(name), PrefixMsys)
    ELSE TRUE

\* the match of is_win_console_emulators on the Option<String> that
\* get_file_name_by_handle returned
is_win_console_emulators(name) ==
    IF IsSome(name)
    THEN \/ starts_with(Unwrap(name), PrefixConEmuHk)
         \/ starts_with(Unwrap(name), PrefixCygwin)
         \/ starts_with(Unwrap(name), PrefixMsys)
    ELSE FALSE

\* ------------------------------------------------------------------ state
VARIABLES
    platform,     \* the build: cfg(unix) or cfg(windows)
    once,         \* per stream: the Once of the Lazy cell
    cell,         \* per stream: the Option<bool> of the Lazy cell
    consoleMode,  \* per stream: the mode of the console behind the stream (OS state)
    pc,           \* per thread: where the thread is in its call
    cur,          \* per thread: the stream of the call in progress
    path,         \* per thread: how its latest call got through call_once
    local,        \* per thread: the probe's local variables
    trace,        \* per thread: the OS calls of the probe run in progress, with their answers
    probes,       \* per stream: the finished probe runs (their OS calls and result)
    hist          \* per thread: the calls that have returned (stream and value)

vars == <<platform, once, cell, consoleMode, pc, cur, path, local, trace, probes, hist>>

NoLocal == [handle |-> "none", console_mode |-> 0, ret |-> FALSE]

\* a probe run that has made no OS call yet
NoTrace ==
    [calls |-> <<>>, fd |-> "none", handle |-> "none", gcm |-> "skip", mode |-> 0,
     scm |-> "skip", arg |-> 0, gft |-> -1, gfi |-> "skip",
     len |-> 0, count |-> 0, name |-> None, tty |-> -1]

\* static MEMOIZED_STDOUT_IS_TTY / MEMOIZED_STDERR_IS_TTY: Lazy<bool> = Lazy::INIT,
\* no thread in a call, consoles in any of their modes
Init ==
    /\ platform \in Platforms
    /\ once = [s \in Streams |-> "INCOMPLETE"]
    /\ cell = [s \in Streams |-> None]
    /\ consoleMode \in [Streams -> InitModes]
    /\ pc = [t \in Threads |-> "idle"]
    /\ cur = [t \in Threads |-> "none"]
    /\ path = [t \in Threads |-> "none"]
    /\ local = [t \in Threads |-> NoLocal]
    /\ trace = [t \in Threads |-> NoTrace]
    /\ probes = [s \in Streams |-> <<>>]
    /\ hist = [t \in Threads |-> <<>>]

\* stderr_isatty probing STDOUT_FD: the constant of the other query
FDOfStdoutForBoth(s) == "STDOUT_FD"

\* the descriptor each query hands to isatty: stdout_isatty STDOUT_FD,
\* stderr_isatty STDERR_FD
FD(s) == IF s = "stdout" THEN "STDOUT_FD" ELSE "STDERR_FD"

\* the stream whose console the handle of a descriptor stands for
ConsoleOf(fd) == IF fd = "STDOUT_FD" THEN "stdout" ELSE "stderr"

\* the first pc of the closure `|| isatty(FD)` on this build
ProbeEntry == IF platform = "windows" THEN "GetStdHandle" ELSE "libc_isatty"

\* --------------------------------------------------------- memoized query
\* the calls entered so far: those that returned and those in progress
RECURSIVE CallsEntered(_)
CallsEntered(T) ==
    IF T = {} THEN 0
    ELSE LET t == CHOOSE x \in T : TRUE
         IN  Len(hist[t]) + (IF pc[t] = "idle" THEN 0 ELSE 1) + CallsEntered(T \ {t})

\* stdout_isatty() / stderr_isatty() is entered: MEMOIZED_*.get(...) begins
Call(t, s) ==
    /\ pc[t] = "idle"
    /\ CallsEntered(Threads) < MaxCalls
    /\ pc' = [pc EXCEPT ![t] = "call_once"]
    /\ cur' = [cur EXCEPT ![t] = s]
    /\ path' = [path EXCEPT ![t] = "fast"]
    /\ UNCHANGED <<platform, once, cell, consoleMode, local, trace, probes, hist>>

\* OnceFast without the memoization: a complete Once is taken again and
\* the closure is run again
OnceFastReruns(t) ==
    /\ pc[t] = "call_once"
    /\ once[cur[t]] \in {"COMPLETE", "POISONED"}
    /\ once' = [once EXCEPT ![cur[t]] = "RUNNING"]
    /\ pc' = [pc EXCEPT ![t] = ProbeEntry]
    /\ local' = [local EXCEPT ![t] = NoLocal]
    /\ trace' = [trace EXCEPT ![t] = NoTrace]
    /\ path' = [path EXCEPT ![t] = "probed"]
    /\ UNCHANGED <<platform, cell, consoleMode, cur, probes, hist>>

\* Once::call_once finds the Once complete (or poisoned by a panic of the
\* closure, and panics itself)
OnceFast(t) ==
    /\ pc[t] = "call_once"
    /\ once[cur[t]] \in {"COMPLETE", "POISONED"}
    /\ pc' = [pc EXCEPT ![t] = IF once[cur[t]] = "COMPLETE" THEN "deref" ELSE "panicked"]
    /\ UNCHANGED <<platform, once, cell, consoleMode, cur, path, local, trace, probes, hist>>

\* OnceBegin without the exclusion: the Once is left incomplete while the
\* closure runs, so a second thread enters the closure too
OnceBeginRacy(t) ==
    /\ pc[t] = "call_once"
    /\ once[cur[t]] = "INCOMPLETE"
    /\ pc' = [pc EXCEPT ![t] = ProbeEntry]
    /\ local' = [local EXCEPT ![t] = NoLocal]
    /\ trace' = [trace EXCEPT ![t] = NoTrace]
    /\ path' = [path EXCEPT ![t] = "probed"]
    /\ UNCHANGED <<platform, once, cell, consoleMode, cur, probes, hist>>

\* Once::call_once finds the Once incomplete, takes it (compare-and-swap
\* to RUNNING) and enters the closure
OnceBegin(t) ==
    /\ pc[t] = "call_once"
    /\ once[cur[t]] = "INCOMPLETE"
    /\ once' = [once EXCEPT ![cur[t]] = "RUNNING"]
    /\ pc' = [pc EXCEPT ![t] = ProbeEntry]
    /\ local' = [local EXCEPT ![t] = NoLocal]
    /\ trace' = [trace EXCEPT ![t] = NoTrace]
    /\ path' = [path EXCEPT ![t] = "probed"]
    /\ UNCHANGED <<platform, cell, consoleMode, cur, probes, hist>>

\* OnceWait that does not wait: finding the closure running, the thread
\* runs the closure itself
OnceWaitProbes(t) ==
    /\ pc[t] = "call_once"
    /\ once[cur[t]] = "RUNNING"
    /\ pc' = [pc EXCEPT ![t] = ProbeEntry]
    /\ path' = [path EXCEPT ![t] = "waited"]
    /\ local' = [local EXCEPT ![t] = NoLocal]
    /\ trace' = [trace EXCEPT ![t] = NoTrace]
    /\ UNCHANGED <<platform, once, cell, consoleMode, cur, probes, hist>>

\* Once::call_once finds another thread running the closure and parks
OnceWait(t) ==
    /\ pc[t] = "call_once"
    /\ once[cur[t]] = "RUNNING"
    /\ pc' = [pc EXCEPT ![t] = "wait"]
    /\ path' = [path EXCEPT ![t] = "waited"]
    /\ UNCHANGED <<platform, once, cell, consoleMode, cur, local, trace, probes, hist>>

\* the parked thread is woken when the running thread is done
OnceWake(t) ==
    /\ pc[t] = "wait"
    /\ once[cur[t]] # "RUNNING"
    /\ pc' = [pc EXCEPT ![t] = "call_once"]
    /\ UNCHANGED <<platform, once, cell, consoleMode, cur, path, local, trace, probes, hist>>

\* what is kept of a finished probe run: its OS calls and their answers,
\* without the name that was retrieved
Finished(tr) == [tr EXCEPT !.len = 0, !.count = 0, !.name = None]

\* the closure returns: its value is stored in the cell (Some(f()))
CellSet(t) ==
    /\ pc[t] = "set"
    /\ cell' = [cell EXCEPT ![cur[t]] = Some(local[t].ret)]
    /\ probes' = [probes EXCEPT ![cur[t]] =
                     Append(@, [trace |-> Finished(trace[t]), result |-> local[t].ret])]
    /\ local' = [local EXCEPT ![t] = NoLocal]
    /\ trace' = [trace EXCEPT ![t] = NoTrace]
    /\ pc' = [pc EXCEPT ![t] = "complete"]
    /\ UNCHANGED <<platform, once, consoleMode, cur, path, hist>>

\* OnceComplete that puts the Once back to incomplete
OnceCompleteForgets(t) ==
    /\ pc[t] = "complete"
    /\ once' = [once EXCEPT ![cur[t]] = "INCOMPLETE"]
    /\ pc' = [pc EXCEPT ![t] = "deref"]
    /\ UNCHANGED <<platform, cell, consoleMode, cur, path, local, trace, probes, hist>>

\* OnceComplete that leaves the Once running: the waiters are never woken
OnceCompleteStaysRunning(t) ==
    /\ pc[t] = "complete"
    /\ pc' = [pc EXCEPT ![t] = "deref"]
    /\ UNCHANGED <<platform, once, cell, consoleMode, cur, path, local, trace, probes, hist>>

\* call_once marks the Once complete and wakes the waiters
OnceComplete(t) ==
    /\ pc[t] = "complete"
    /\ once' = [once EXCEPT ![cur[t]] = "COMPLETE"]
    /\ pc' = [pc EXCEPT ![t] = "deref"]
    /\ UNCHANGED <<platform, cell, consoleMode, cur, path, local, trace, probes, hist>>

\* `*res`: the stored value is read and returned.  Lazy::get reads the
\* cell unchecked: were it still None the read would be undefined, any
\* boolean
Deref(t) ==
    /\ pc[t] = "deref"
    /\ \E v \in BOOLEAN :
          /\ IsSome(cell[cur[t]]) => v = Unwrap(cell[cur[t]])
          /\ hist' = [hist EXCEPT ![t] =
                         Append(@, [stream |-> cur[t], value |-> v])]
    /\ pc' = [pc EXCEPT ![t] = "idle"]
    /\ cur' = [cur EXCEPT ![t] = "none"]
    /\ UNCHANGED <<platform, once, cell, consoleMode, path, local, trace, probes>>

\* ------------------------------------------------------------- unix probe
\* the unix probe with the comparison turned round: libc::isatty(fd) != 1
LibcIsattyInverted(t) ==
    /\ pc[t] = "libc_isatty"
    /\ \E r \in {0, 1} :
          /\ trace' = [trace EXCEPT ![t].calls = Append(@, "isatty"),
                                    ![t].fd = FD(cur[t]), ![t].tty = r]
          /\ local' = [local EXCEPT ![t].ret = (r # 1)]
    /\ pc' = [pc EXCEPT ![t] = "set"]
    /\ UNCHANGED <<platform, once, cell, consoleMode, cur, path, probes, hist>>

\* isatty(fd): unsafe { libc::isatty(fd) == 1 }
LibcIsatty(t) ==
    /\ pc[t] = "libc_isatty"
    /\ \E r \in {0, 1} :
          /\ trace' = [trace EXCEPT ![t].calls = Append(@, "isatty"),
                                    ![t].fd = FD(cur[t]), ![t].tty = r]
          /\ local' = [local EXCEPT ![t].ret = (r = 1)]
    /\ pc' = [pc EXCEPT ![t] = "set"]
    /\ UNCHANGED <<platform, once, cell, consoleMode, cur, path, probes, hist>>

\* ---------------------------------------------------------- windows probe
\* GetStdHandle without the null check: the probe goes on with no handle
GetStdHandleNoNullCheck(t) ==
    /\ pc[t] = "GetStdHandle"
    /\ \E h \in Handles :
          /\ trace' = [trace EXCEPT ![t].calls = Append(@, "GetStdHandle"),
                                    ![t].fd = FD(cur[t]), ![t].handle = h]
          /\ local' = [local EXCEPT ![t].handle = h, ![t].ret = FALSE]
          /\ pc' = [pc EXCEPT ![t] = "GetConsoleMode"]
    /\ UNCHANGED <<platform, once, cell, consoleMode, cur, path, probes, hist>>

\* let handle = GetStdHandle(fd); if handle.is_null() { return false; }
GetStdHandle(t) ==
    /\ pc[t] = "GetStdHandle"
    /\ \E h \in Handles :
          /\ trace' = [trace EXCEPT ![t].calls = Append(@, "GetStdHandle"),
                                    ![t].fd = FD(cur[t]), ![t].handle = h]
          /\ local' = [local EXCEPT ![t].handle = h, ![t].ret = FALSE]
          /\ pc' = [pc EXCEPT ![t] = IF h = "NULL" THEN "set" ELSE "GetConsoleMode"]
    /\ UNCHANGED <<platform, once, cell, consoleMode, cur, path, probes, hist>>

\* GetConsoleMode whose result is not looked at: the mode is set whether
\* or not the query succeeded
GetConsoleModeIgnoresResult(t) ==
    /\ pc[t] = "GetConsoleMode"
    /\ \E is_a_tty \in BOOLEAN :
          /\ is_a_tty => local[t].handle = "VALID"
          /\ IF is_a_tty
             THEN /\ trace' = [trace EXCEPT ![t].calls = Append(@, "GetConsoleMode"),
                                            ![t].gcm = "ok",
                                            ![t].mode = consoleMode[ConsoleOf(FD(cur[t]))]]
                  /\ local' = [local EXCEPT ![t].console_mode =
                                                consoleMode[ConsoleOf(FD(cur[t]))]]
             ELSE /\ trace' = [trace EXCEPT ![t].calls = Append(@, "GetConsoleMode"),
                                            ![t].gcm = "fail"]
                  /\ local' = local
          /\ pc' = [pc EXCEPT ![t] = "SetConsoleMode"]
    /\ UNCHANGED <<platform, once, cell, consoleMode, cur, path, probes, hist>>

\* let is_a_tty = GetConsoleMode(handle, &mut console_mode) != FALSE;
\* the call fails on a handle that is none, and on one that is no console
GetConsoleMode(t) ==
    /\ pc[t] = "GetConsoleMode"
    /\ \E is_a_tty \in BOOLEAN :
          /\ is_a_tty => local[t].handle = "VALID"
          /\ IF is_a_tty
             THEN /\ trace' = [trace EXCEPT ![t].calls = Append(@, "GetConsoleMode"),
                                            ![t].gcm = "ok",
                                            ![t].mode = consoleMode[ConsoleOf(FD(cur[t]))]]
                  /\ local' = [local EXCEPT ![t].console_mode =
                                                consoleMode[ConsoleOf(FD(cur[t]))]]
                  /\ pc' = [pc EXCEPT ![t] = "SetConsoleMode"]
             ELSE /\ trace' = [trace EXCEPT ![t].calls = Append(@, "GetConsoleMode"),
                                            ![t].gcm = "fail"]
                  /\ local' = local
                  /\ pc' = [pc EXCEPT ![t] = "GetFileType"]
    /\ UNCHANGED <<platform, once, cell, consoleMode, cur, path, probes, hist>>

\* ModeToSet without the flag: the mode is written back as it was read
ModeToSetNoFlag(console_mode) == console_mode

\* ModeToSet with `=` for `|`: the flag alone is set, the mode read is dropped
ModeToSetOnlyFlag(console_mode) == ENABLE_VIRTUAL_TERMINAL_PROCESSING

\* the mode handed to SetConsoleMode
ModeToSet(console_mode) == BitOr(console_mode, ENABLE_VIRTUAL_TERMINAL_PROCESSING)

\* SetConsoleMode whose failure falls through to the pipe check instead of
\* returning false
SetConsoleModeFallsThrough(t) ==
    /\ pc[t] = "SetConsoleMode"
    /\ \E ok \in BOOLEAN :
          LET arg == ModeToSet(local[t].console_mode)
          IN  /\ consoleMode' = IF ok THEN [consoleMode EXCEPT ![ConsoleOf(FD(cur[t]))] = arg]
                                ELSE consoleMode
              /\ trace' = [trace EXCEPT ![t].calls = Append(@, "SetConsoleMode"),
                                        ![t].scm = IF ok THEN "ok" ELSE "fail",
                                        ![t].arg = arg]
              /\ local' = [local EXCEPT ![t].ret = ok]
              /\ pc' = [pc EXCEPT ![t] = IF ok THEN "set" ELSE "GetFileType"]
    /\ UNCHANGED <<platform, once, cell, cur, path, probes, hist>>

\* return SetConsoleMode(handle, console_mode | ENABLE_VIRTUAL_TERMINAL_PROCESSING) != FALSE;
\* a console that does not know the flag refuses and keeps its mode
SetConsoleMode(t) ==
    /\ pc[t] = "SetConsoleMode"
    /\ \E ok \in BOOLEAN :
          LET arg == ModeToSet(local[t].console_mode)
          IN  /\ consoleMode' = IF ok THEN [consoleMode EXCEPT ![ConsoleOf(FD(cur[t]))] = arg]
                                ELSE consoleMode
              /\ trace' = [trace EXCEPT ![t].calls = Append(@, "SetConsoleMode"),
                                        ![t].scm = IF ok THEN "ok" ELSE "fail",
                                        ![t].arg = arg]
              /\ local' = [local EXCEPT ![t].ret = ok]
    /\ pc' = [pc EXCEPT ![t] = "set"]
    /\ UNCHANGED <<platform, once, cell, cur, path, probes, hist>>

\* if GetFileType(handle) != FILE_TYPE_PIPE { return false; }
\* on a handle that is none the call fails: FILE_TYPE_UNKNOWN
GetFileType(t) ==
    /\ pc[t] = "GetFileType"
    /\ \E ft \in FileTypes :
          /\ local[t].handle # "VALID" => ft = 0
          /\ trace' = [trace EXCEPT ![t].calls = Append(@, "GetFileType"), ![t].gft = ft]
          /\ local' = [local EXCEPT ![t].ret = FALSE]
          /\ pc' = [pc EXCEPT ![t] = IF ft # FILE_TYPE_PIPE THEN "set"
                                     ELSE "GetFileInformationByHandleEx"]
    /\ UNCHANGED <<platform, once, cell, consoleMode, cur, path, probes, hist>>

\* return is_win_console_emulators(handle): get_file_name_by_handle calls
\* GetFileInformationByHandleEx with size_of::<FileNameInfo>(), slices and
\* converts the name, and the name is matched against the prefixes.  A
\* panic of the slice unwinds through call_once and poisons the Once.
GetFileInformationByHandleEx(t) ==
    /\ pc[t] = "GetFileInformationByHandleEx"
    /\ \E avail \in BOOLEAN, nm \in OsNames :
          LET buf == OsGetFileInformationByHandleEx(avail, nm, SizeOfFileNameInfo)
              got == get_file_name_by_handle(buf)
              ret == is_win_console_emulators(got.name)
          IN  /\ trace' = [trace EXCEPT ![t].calls = Append(@, "GetFileInformationByHandleEx"),
                                        ![t].gfi = IF buf.res = 0 THEN "fail" ELSE "ok",
                                        ![t].len = buf.FileNameLength,
                                        ![t].count = IF buf.res = 0 THEN 0
                                                     ELSE CharCount(buf.FileNameLength),
                                        ![t].name = got.name]
              /\ local' = [local EXCEPT ![t].ret = ret]
              /\ pc' = [pc EXCEPT ![t] = IF got.panic THEN "panicked" ELSE "set"]
              /\ once' = IF got.panic THEN [once EXCEPT ![cur[t]] = "POISONED"] ELSE once
    /\ UNCHANGED <<platform, cell, consoleMode, cur, path, probes, hist>>

\* ------------------------------------------------------------------- spec
Next ==
    \E t \in Threads :
        \/ \E s \in Streams : Call(t, s)
        \/ OnceFast(t)
        \/ OnceBegin(t)
        \/ OnceWait(t)
        \/ OnceWake(t)
        \/ LibcIsatty(t)
        \/ GetStdHandle(t)
        \/ GetConsoleMode(t)
        \/ SetConsoleMode(t)
        \/ GetFileType(t)
        \/ GetFileInformationByHandleEx(t)
        \/ CellSet(t)
        \/ OnceComplete(t)
        \/ Deref(t)

Spec == Init /\ [][Next]_vars

\* a step of thread t inside a call: everything but the entry into a call,
\* which is the caller's choice
Step(t) ==
    \/ OnceFast(t)
    \/ OnceBegin(t)
    \/ OnceWait(t)
    \/ OnceWake(t)
    \/ LibcIsatty(t)
    \/ GetStdHandle(t)
    \/ GetConsoleMode(t)
    \/ SetConsoleMode(t)
    \/ GetFileType(t)
    \/ GetFileInformationByHandleEx(t)
    \/ CellSet(t)
    \/ OnceComplete(t)
    \/ Deref(t)

\* the threads are scheduled fairly while they are inside a call, and
\* every OS call returns
FairSpec == Spec /\ \A t \in Threads : WF_vars(Step(t))

\* ----------------------------------------------------------------- claims
\* the calls on stream s that have returned, as <<thread, index>> pairs
ReturnedCalls(s) ==
    { c \in Threads \X (1..MaxCalls) :
        c[2] <= Len(hist[c[1]]) /\ hist[c[1]][c[2]].stream = s }

ValueOf(c) == hist[c[1]][c[2]].value

\* C1: for each stream, every call that has returned, from whatever thread
\* and however the calls interleaved, returned the one boolean stored in the
\* stream's cell; so all calls on a stream return the same boolean.
C1_AllCallsSeeTheStoredResult ==
    \A s \in Streams : \A c \in ReturnedCalls(s) :
        /\ IsSome(cell[s])
        /\ ValueOf(c) = Unwrap(cell[s])
        /\ \A d \in ReturnedCalls(s) : ValueOf(d) = ValueOf(c)

\* two threads called the same stream's query while the cell was
\* uncomputed: one ran the probe, the other waited for it, both returned true
C1_Witness ==
    \E s \in Streams : \E t, u \in Threads :
        /\ t # u
        /\ pc[t] = "idle" /\ pc[u] = "idle"
        /\ path[t] = "probed" /\ path[u] = "waited"
        /\ hist[t] = <<[stream |-> s, value |-> TRUE]>>
        /\ hist[u] = <<[stream |-> s, value |-> TRUE]>>

\* C2: the probe of a stream is run exactly once, by the first call, and
\* every call on the stream, the first and the later ones, returns the
\* result of that one run; a call on a stream whose Once is complete goes
\* to the read without entering the closure.
C2_ProbedOnceThenCached ==
    /\ \A s \in Streams : \A c \in ReturnedCalls(s) :
          /\ Len(probes[s]) = 1
          /\ ValueOf(c) = probes[s][1].result
    /\ \A t \in Threads :
          (pc[t] = "idle" /\ Len(hist[t]) = 2 /\ hist[t][1].stream = hist[t][2].stream)
              => path[t] = "fast"

\* one thread alone called the same query twice: the first call ran the
\* probe, the second found the cell computed, both returned true
C2_Witness ==
    \E t \in Threads :
        /\ \A u \in Threads \ {t} : pc[u] = "idle" /\ hist[u] = <<>>
        /\ pc[t] = "idle"
        /\ path[t] = "fast"
        /\ hist[t] = <<[stream |-> "stdout", value |-> TRUE],
                       [stream |-> "stdout", value |-> TRUE]>>
        /\ Len(probes["stdout"]) = 1

\* the probe runs that have just computed their result (the closure is
\* about to return it), with all their OS answers
DoneRuns ==
    { [trace |-> trace[t], result |-> local[t].ret] : t \in { u \in Threads : pc[u] = "set" } }

\* str begins with one of the three emulator prefixes, compared unit by
\* unit, case-sensitively
BeginsWith(str, p) ==
    /\ NameLen(str) >= Len(p)
    /\ \A i \in 1..Len(p) : CharAt(str, i) = p[i]

HasKnownPrefix(str) ==
    \E p \in {PrefixConEmuHk, PrefixCygwin, PrefixMsys} : BeginsWith(str, p)

\* case (a) of C3: a handle, a console, and the mode was set
NativeVtConsole(tr) == tr.handle # "NULL" /\ tr.gcm = "ok" /\ tr.scm = "ok"

\* case (b) of C3: a handle, no console, a pipe, a name, an emulator prefix
EmulatorPipe(tr) ==
    /\ tr.handle # "NULL"
    /\ tr.gcm = "fail"
    /\ tr.gft = FILE_TYPE_PIPE
    /\ tr.gfi = "ok"
    /\ IsSome(tr.name)
    /\ HasKnownPrefix(Unwrap(tr.name))

\* C3: win::isatty returns true exactly in case (a) or case (b), whatever
\* the OS answered; and a console whose mode-set fails returns false
\* without asking for the file type or the name.
C3_FourWayClassification ==
    platform = "windows" =>
        \A r \in DoneRuns :
            /\ r.result = (NativeVtConsole(r.trace) \/ EmulatorPipe(r.trace))
            /\ r.trace.scm = "fail" =>
                  /\ ~r.result
                  /\ r.trace.calls = <<"GetStdHandle", "GetConsoleMode", "SetConsoleMode">>

\* one probe has found a legacy console (mode-set failed) and answers
\* false while another has found an emulator pipe and answers true
C3_Witness ==
    \E t, u \in Threads :
        /\ pc[t] = "set" /\ trace[t].scm = "fail" /\ ~local[t].ret
        /\ pc[u] = "set" /\ EmulatorPipe(trace[u]) /\ local[u].ret

\* one of the OS queries of the run failed
HandleResolutionFailed(tr) == tr.handle \in {"NULL", "INVALID"}
ModeQueryFailed(tr) == tr.gcm = "fail"
ModeSetFailed(tr) == tr.scm = "fail"
FileTypeQueryFailed(tr) == tr.gft = 0
NameRetrievalFailed(tr) == tr.gfi = "fail"

\* C4 as stated: whenever any one of the OS queries of the run fails
\* (handle resolution, console-mode query, mode set, file-type query, name
\* retrieval), the result is false, and no thread panics.
C4_AsStated ==
    /\ \A t \in Threads : pc[t] # "panicked"
    /\ platform = "windows" =>
          \A r \in DoneRuns :
              (\/ HandleResolutionFailed(r.trace)
               \/ ModeQueryFailed(r.trace)
               \/ ModeSetFailed(r.trace)
               \/ FileTypeQueryFailed(r.trace)
               \/ NameRetrievalFailed(r.trace)) => ~r.result

\* C4 amended: a failure of handle resolution, of the mode set, of the
\* file-type query or of the name retrieval makes the result false, and
\* no thread panics; a failed console-mode query makes the result false
\* unless the handle is a pipe whose retrieved name begins with an
\* emulator prefix.
C4_FailuresGiveFalse ==
    /\ \A t \in Threads : pc[t] # "panicked"
    /\ platform = "windows" =>
          \A r \in DoneRuns :
              /\ (\/ HandleResolutionFailed(r.trace)
                  \/ ModeSetFailed(r.trace)
                  \/ FileTypeQueryFailed(r.trace)
                  \/ NameRetrievalFailed(r.trace)) => ~r.result
              /\ ModeQueryFailed(r.trace) => (r.result = EmulatorPipe(r.trace))

\* a probe whose name retrieval failed answers false, next to one whose
\* console-mode query failed and which answers true
C4_Witness ==
    \E t, u \in Threads :
        /\ pc[t] = "set" /\ NameRetrievalFailed(trace[t]) /\ ~local[t].ret
        /\ pc[u] = "set" /\ ModeQueryFailed(trace[u]) /\ local[u].ret

\* C5: a probe that found no handle has made no OS call but GetStdHandle
\* and answers false, and every call on a stream whose probe found no
\* handle returns false.
C5_NoHandleGivesFalse ==
    /\ \A t \in Threads :
          trace[t].handle = "NULL" =>
              /\ pc[t] = "set"
              /\ ~local[t].ret
              /\ trace[t].calls = <<"GetStdHandle">>
    /\ \A s \in Streams :
          (Len(probes[s]) >= 1 /\ probes[s][1].trace.handle = "NULL") =>
              /\ ~probes[s][1].result
              /\ probes[s][1].trace.calls = <<"GetStdHandle">>
              /\ \A c \in ReturnedCalls(s) : ~ValueOf(c)

\* the probe of stderr found no handle, and a thread has called the
\* stderr query twice and got false both times
C5_Witness ==
    \E t \in Threads :
        /\ Len(probes["stderr"]) = 1
        /\ probes["stderr"][1].trace.handle = "NULL"
        /\ pc[t] = "idle"
        /\ hist[t] = <<[stream |-> "stderr", value |-> FALSE],
                       [stream |-> "stderr", value |-> FALSE]>>

\* the probe of stream s answered true through the native-console branch
AnsweredTrueNative(s) ==
    \E i \in 1..Len(probes[s]) :
        probes[s][i].result /\ NativeVtConsole(probes[s][i].trace)

VtEnabled(s) == HasFlag(consoleMode[s], ENABLE_VIRTUAL_TERMINAL_PROCESSING)

\* C6: from the moment a stream's probe has answered true through the
\* native-console branch, VT processing is enabled on the stream's console
\* in every state, and no step ever clears the VT flag of a console.
C6_VtStaysEnabled ==
    /\ [](\A s \in Streams : AnsweredTrueNative(s) => VtEnabled(s))
    /\ [][\A s \in Streams : VtEnabled(s) => VtEnabled(s)']_vars

\* a console that started without the VT flag has it after the probe, and
\* a call on the stream has returned true
C6_Witness ==
    \E s \in Streams :
        /\ AnsweredTrueNative(s)
        /\ ~HasFlag(probes[s][1].trace.mode, ENABLE_VIRTUAL_TERMINAL_PROCESSING)
        /\ VtEnabled(s)
        /\ \E c \in ReturnedCalls(s) : ValueOf(c)

\* C7: whenever the name retrieval was made, is_win_console_emulators
\* answers true exactly when a name was retrieved and it begins,
\* case-sensitively, with one of the three prefixes; no name gives false.
C7_PrefixOnlyCaseSensitive ==
    platform = "windows" =>
        \A r \in DoneRuns :
            r.trace.gfi # "skip" =>
                r.result = (IsSome(r.trace.name) /\ HasKnownPrefix(Unwrap(r.trace.name)))

\* a name that holds a prefix after its first character and a name that
\* differs from a prefix in letter case both give false
C7_Witness ==
    \E t, u \in Threads :
        /\ pc[t] = "set" /\ ~local[t].ret
        /\ trace[t].name = Some(Text(<<"x">> \o PrefixMsys, 0, 0))
        /\ pc[u] = "set" /\ ~local[u].ret
        /\ trace[u].name = Some(Text(<<"\\", "M", "s", "y", "s", "-", "a">>, 0, 0))

\* C8: after a successful name retrieval the count used to slice FileName
\* is FileNameLength / 2, is at most 2040, is the length of the name that
\* comes out, and no thread has panicked.
C8_SliceWithinBuffer ==
    /\ \A t \in Threads : pc[t] # "panicked"
    /\ \A t \in Threads :
          trace[t].gfi = "ok" =>
              /\ trace[t].count = trace[t].len \div 2
              /\ trace[t].count <= 2040
              /\ IsSome(trace[t].name)
              /\ NameLen(Unwrap(trace[t].name)) = trace[t].count

\* the OS reported a name that fills FileName to its last unit
C8_Witness ==
    \E t \in Threads :
        /\ pc[t] = "set"
        /\ trace[t].gfi = "ok"
        /\ trace[t].len = 4080
        /\ trace[t].count = 2040
        /\ local[t].ret

\* C9: a cell is None or Some of a boolean, and a step never changes a
\* cell that is computed: it is written at most once and never reset.
C9_CellWrittenOnce ==
    [][\A s \in Streams :
          /\ cell[s] \in {None, Some(TRUE), Some(FALSE)}
          /\ cell'[s] \in {None, Some(TRUE), Some(FALSE)}
          /\ IsSome(cell[s]) => cell'[s] = cell[s]]_vars

\* a cell is computed and a later call on its stream is about to read it
C9_Witness ==
    \E s \in Streams : \E t \in Threads :
        /\ IsSome(cell[s])
        /\ once[s] = "COMPLETE"
        /\ pc[t] = "deref" /\ cur[t] = s /\ path[t] = "fast"
        /\ Len(hist[t]) = 1

\* C10: under fair scheduling every call that has been entered returns:
\* no thread stays inside a call for ever, so each thread is outside of any
\* call again and again (the same as: not idle leads to idle).
C10_EveryCallReturns ==
    \A t \in Threads : []<>(pc[t] = "idle")

\* a call has arrived while another thread's probe of the same stream is
\* in progress, and is parked
C10_Witness ==
    \E t, u \in Threads :
        /\ pc[t] = "wait"
        /\ cur[u] = cur[t]
        /\ pc[u] = "GetFileType"

\* C11: on unix a probe run is the one call of libc::isatty and its result
\* is true exactly when that call reported a terminal (returned 1); any
\* other answer gives false.
C11_UnixResultIsTheOsCheck ==
    platform = "unix" =>
        /\ \A r \in DoneRuns :
              /\ r.trace.calls = <<"isatty">>
              /\ r.trace.tty \in {0, 1}
              /\ r.result = (r.trace.tty = 1)
        /\ \A s \in Streams : \A i \in 1..Len(probes[s]) :
              /\ probes[s][i].trace.calls = <<"isatty">>
              /\ probes[s][i].result = (probes[s][i].trace.tty = 1)

\* on unix one descriptor was reported a terminal and gives true, the
\* other was reported no terminal and gives false
C11_Witness ==
    /\ platform = "unix"
    /\ \E t, u \in Threads :
          /\ pc[t] = "set" /\ trace[t].tty = 1 /\ local[t].ret
          /\ pc[u] = "set" /\ trace[u].tty = 0 /\ ~local[u].ret

\* what the system holds for stream s: its Once, its cell, the mode of its
\* console and its finished probe runs
StreamState(s) == <<once[s], cell[s], consoleMode[s], probes[s]>>

\* the descriptor of stream s, written out
OwnFd(s) == IF s = "stdout" THEN "STDOUT_FD" ELSE "STDERR_FD"

\* C12: a step of a call on one stream leaves the Once, the cell, the
\* console mode and the probe runs of the other stream as they were, and a
\* probe run of a stream's query asks the OS about that stream's
\* descriptor only.
C12_StreamsIndependent ==
    [][\A t \in Threads :
          /\ pc'[t] # pc[t] =>
                \A s \in Streams \ {cur[t]} : StreamState(s)' = StreamState(s)
          /\ cur'[t] \in Streams => trace'[t].fd \in {"none", OwnFd(cur'[t])}
          /\ \A s \in Streams : \A i \in 1..Len(probes'[s]) :
                probes'[s][i].trace.fd = OwnFd(s)]_vars

\* the stdout query has probed a console, switched it to VT and returned
\* true, and nothing of stderr has moved: its Once is incomplete, its cell
\* empty, its console in the mode it started in
C12_Witness ==
    /\ cell["stdout"] = Some(TRUE)
    /\ Len(probes["stdout"]) = 1
    /\ probes["stdout"][1].trace.mode = 3
    /\ consoleMode["stdout"] = 7
    /\ \E c \in ReturnedCalls("stdout") : ValueOf(c)
    /\ StreamState("stderr") = <<"INCOMPLETE", None, 3, <<>>>>

\* the OS calls and answers of every probe run, in progress or finished
AllTraces ==
    { trace[t] : t \in Threads }
    \cup UNION { { probes[s][i].trace : i \in 1..Len(probes[s]) } : s \in Streams }

\* the place of call c in the run's sequence of OS calls, 0 when not made
PlaceOf(tr, c) ==
    IF \E i \in 1..Len(tr.calls) : tr.calls[i] = c
    THEN CHOOSE i \in 1..Len(tr.calls) : tr.calls[i] = c
    ELSE 0

Made(tr, c) == PlaceOf(tr, c) > 0

\* call c was made in the run, and made after call b
MadeAfter(tr, c, b) == Made(tr, b) /\ PlaceOf(tr, b) < PlaceOf(tr, c)

\* the OS calls of one run are ordered and guarded
OrderedAndGuarded(tr) ==
    /\ \A i, j \in 1..Len(tr.calls) : tr.calls[i] = tr.calls[j] => i = j
    /\ Made(tr, "SetConsoleMode") =>
          MadeAfter(tr, "SetConsoleMode", "GetConsoleMode") /\ tr.gcm = "ok"
    /\ Made(tr, "GetFileType") =>
          MadeAfter(tr, "GetFileType", "GetConsoleMode") /\ tr.gcm = "fail"
    /\ Made(tr, "GetFileInformationByHandleEx") =>
          /\ MadeAfter(tr, "GetFileInformationByHandleEx", "GetFileType")
          /\ tr.gft = FILE_TYPE_PIPE
    /\ (tr.handle = "NULL" \/ Made(tr, "GetFileType")) => ~Made(tr, "SetConsoleMode")

\* C13: in every probe run SetConsoleMode comes only after a successful
\* GetConsoleMode, GetFileType only after a failed GetConsoleMode, the name
\* retrieval only after GetFileType answered pipe; a run on the no-handle,
\* file or pipe branch makes no SetConsoleMode, and a console mode changes
\* only in the step of a run that has just made a successful SetConsoleMode
\* after a successful GetConsoleMode.
C13_OsCallsOrderedAndGuarded ==
    /\ [](platform = "windows" => \A tr \in AllTraces : OrderedAndGuarded(tr))
    /\ [][\A s \in Streams :
             consoleMode'[s] # consoleMode[s] =>
                 \E t \in Threads :
                     /\ cur[t] = s
                     /\ trace'[t].calls = <<"GetStdHandle", "GetConsoleMode", "SetConsoleMode">>
                     /\ trace[t].gcm = "ok"
                     /\ trace'[t].scm = "ok"]_vars

\* one run has gone the console way to SetConsoleMode, another the pipe
\* way to the name retrieval
C13_Witness ==
    \E t, u \in Threads :
        /\ pc[t] = "set"
        /\ trace[t].calls = <<"GetStdHandle", "GetConsoleMode", "SetConsoleMode">>
        /\ pc[u] = "set"
        /\ trace[u].calls = <<"GetStdHandle", "GetConsoleMode", "GetFileType",
                              "GetFileInformationByHandleEx">>

\* the flag bits of a console mode that are looked at
FlagBits == {1, 2, 4, 8, 16}

\* mode `after` is mode `before` with the VT flag added and nothing else
\* changed
OnlyVtAdded(before, after) ==
    \A b \in FlagBits :
        HasFlag(after, b) = (HasFlag(before, b) \/ b = 4)

\* C14: the mode handed to SetConsoleMode is the mode GetConsoleMode has
\* just returned with the VT flag added and no other flag changed, and a
\* step that changes a console's mode keeps every flag that was set and
\* sets no new flag but the VT flag.
C14_OnlyVtFlagAdded ==
    /\ [](\A tr \in AllTraces : tr.scm # "skip" => OnlyVtAdded(tr.mode, tr.arg))
    /\ [][\A s \in Streams :
             consoleMode'[s] # consoleMode[s] =>
                 OnlyVtAdded(consoleMode[s], consoleMode'[s])]_vars

\* a console in mode 3 (two flags, no VT) was switched to mode 7
C14_Witness ==
    \E t \in Threads :
        /\ pc[t] = "set"
        /\ trace[t].scm = "ok"
        /\ trace[t].mode = 3
        /\ trace[t].arg = 7
        /\ consoleMode[cur[t]] = 7

\* thread t is inside the probe closure
InProbe(t) ==
    pc[t] \in {"libc_isatty", "GetStdHandle", "GetConsoleMode", "SetConsoleMode",
               "GetFileType", "GetFileInformationByHandleEx", "set"}

\* the probe runs of stream s, finished and in progress
RunsOf(s) ==
    Len(probes[s]) + Cardinality({ t \in Threads : cur[t] = s /\ InProbe(t) })

\* the SetConsoleMode calls made for stream s
ModeSetsOf(s) ==
    Cardinality({ i \in 1..Len(probes[s]) : Made(probes[s][i].trace, "SetConsoleMode") })
    + Cardinality({ t \in Threads :
                      cur[t] = s /\ InProbe(t) /\ Made(trace[t], "SetConsoleMode") })

\* C15: under every interleaving a stream has at most one probe run, so at
\* most one SetConsoleMode call; a caller parked on a stream is parked
\* behind that one run, and a caller that was parked reads and returns the
\* result of that run without a run of its own.
C15_ProbeRunsAtMostOnce ==
    /\ \A s \in Streams : RunsOf(s) <= 1 /\ ModeSetsOf(s) <= 1
    /\ \A t \in Threads :
          /\ pc[t] = "wait" => RunsOf(cur[t]) = 1
          /\ (path[t] = "waited" /\ pc[t] = "deref") =>
                Len(probes[cur[t]]) = 1 /\ cell[cur[t]] = Some(probes[cur[t]][1].result)
          /\ (path[t] = "waited" /\ pc[t] = "idle") =>
                LET last == hist[t][Len(hist[t])]
                IN  /\ Len(probes[last.stream]) = 1
                    /\ last.value = probes[last.stream][1].result

\* a caller arrived during the probe of a console, waited, and returned
\* the true of that one run, which made the one SetConsoleMode call
C15_Witness ==
    \E s \in Streams : \E t, u \in Threads :
        /\ path[t] = "waited" /\ pc[t] = "idle"
        /\ hist[t] = <<[stream |-> s, value |-> TRUE]>>
        /\ path[u] = "probed"
        /\ RunsOf(s) = 1
        /\ ModeSetsOf(s) = 1

====
